---- MODULE Spec2Model ----
(***************************************************************************)
(* Model of the detection-fusion pipeline of MOE_TTA.ipynb:                *)
(*   run_moe           single-view Mixture-of-Experts inference            *)
(*                     (gate weighting, thresholding, torchvision nms)     *)
(*   run_moe_with_tta  test-time augmentation over four views, temp files, *)
(*                     normalisation and ensemble_boxes'                   *)
(*                     weighted_boxes_fusion                               *)
(*                                                                         *)
(* Numbers.  Raw confidences are in tenths (9 is 0.9), gate weights in     *)
(* fifths (4 is 0.8); a gate-scaled confidence and conf_threshold are in   *)
(* fiftieths (36 is 0.72, 15 is 0.3); iou_threshold is in tenths.  Floats  *)
(* are modelled as exact rationals: products and quotients are compared by *)
(* cross-multiplication, never rounded.  Pixel boxes are <<x1,y1,x2,y2>>   *)
(* on the integer grid of an ImgW x ImgH image.                            *)
(***************************************************************************)
EXTENDS Integers, Sequences, FiniteSets, TLC

\* ------------------------------------------------------------- bounds
NumExperts == 2     \* len(experts)
MaxPool    == 4     \* longest pool handed to nms in the NMS specification
MaxCluster == 4     \* largest WBF cluster in the cluster specification
ImgW       == 4     \* original_img.size[0]
ImgH       == 3     \* original_img.size[1]

Experts == 1..NumExperts

\* ------------------------------------------------------------- geometry
BoxA == <<0, 0, 1, 1>>
BoxB == <<0, 0, 2, 3>>
BoxC == <<0, 1, 1, 3>>
BoxD == <<1, 0, 2, 2>>
Boxes == {BoxA, BoxB, BoxC, BoxD}

Max(a, b) == IF a >= b THEN a ELSE b
Min(a, b) == IF a <= b THEN a ELSE b

Area(b) == (b[3] - b[1]) * (b[4] - b[2])

\* Intersection area of two axis-aligned boxes, widths clamped at 0.
Inter(a, b) ==
    Max(0, Min(a[3], b[3]) - Max(a[1], b[1])) *
    Max(0, Min(a[4], b[4]) - Max(a[2], b[2]))

\* iou(a, b) > thr/10, as the nms kernel tests it (inter / union > thr).
\* Labels play no part.
IoUExceedsInverted(a, b, thr) ==
    10 * Inter(a, b) < thr * (Area(a) + Area(b) - Inter(a, b))

IoUExceeds(a, b, thr) ==
    10 * Inter(a, b) > thr * (Area(a) + Area(b) - Inter(a, b))

\* ------------------------------------------------------------- torchvision nms
\* scores.sort(stable, descending): does rows[p] come before rows[q]?
SortsBeforeReversedTies(rows, p, q) ==
    \/ rows[p].conf > rows[q].conf
    \/ rows[p].conf = rows[q].conf /\ p > q

SortsBefore(rows, p, q) ==
    \/ rows[p].conf > rows[q].conf
    \/ rows[p].conf = rows[q].conf /\ p < q

\* The indices of rows, by descending score: index p goes in after every
\* index that sorts before it.
RECURSIVE InsertIdx(_, _, _)
InsertIdx(rows, sorted, p) ==
    IF sorted = <<>> THEN <<p>>
    ELSE IF SortsBefore(rows, p, Head(sorted)) THEN <<p>> \o sorted
    ELSE <<Head(sorted)>> \o InsertIdx(rows, Tail(sorted), p)

RECURSIVE OrderUpTo(_, _)
OrderUpTo(rows, n) ==
    IF n = 0 THEN <<>> ELSE InsertIdx(rows, OrderUpTo(rows, n - 1), n)

Order(rows) == OrderUpTo(rows, Len(rows))

\* The kernel's loop: keep the first index left, drop every later index whose
\* box overlaps it by more than thr, go on with the rest.
RECURSIVE NmsLoop(_, _, _)
NmsLoop(rows, order, thr) ==
    IF order = <<>> THEN <<>>
    ELSE LET i    == Head(order)
             rest == SelectSeq(Tail(order),
                        LAMBDA j : ~IoUExceeds(rows[i].box, rows[j].box, thr))
         IN  <<i>> \o NmsLoop(rows, rest, thr)

\* nms(boxes, scores, iou_threshold): kept indices, by descending score.
Nms(rows, thr) == NmsLoop(rows, Order(rows), thr)

\* all_boxes_combined[keep_indices]
FinalKept(rows, thr) ==
    LET keep_indices == Nms(rows, thr)
    IN  [k \in 1..Len(keep_indices) |-> rows[keep_indices[k]]]

\* ------------------------------------------------------------- inputs
\* Raw (unweighted) confidences an expert reports, in tenths.
RawConfs == {4, 9}

\* The class an expert reports on each box: the pool mixes classes.
BoxLabel(b) == IF b \in {BoxA, BoxB} THEN 0 ELSE 1

\* What one expert returns for one image: up to two detections, on
\* different boxes (BoxB and BoxC overlap, and differ in class).
RawDetections ==
    {[box |-> b, conf |-> c, label |-> BoxLabel(b)] :
        b \in {BoxB, BoxC}, c \in RawConfs}

RawResults ==
    {<<>>} \cup {<<d>> : d \in RawDetections}
           \cup {de \in RawDetections \X RawDetections : de[1].box # de[2].box}

\* Softmax outputs of the gating network, in fifths, summing to 1.
GateLevels == {0, 1, 4, 5}

RECURSIVE SumSeq(_)
SumSeq(s) == IF s = <<>> THEN 0 ELSE Head(s) + SumSeq(Tail(s))

GateVectors(n) == {g \in [1..n -> GateLevels] : SumSeq(g) = 5}

\* Vectors get_gate_weights may return: the gating head's width need not be
\* len(experts).
GateChoices ==
    GateVectors(NumExperts) \cup GateVectors(NumExperts + 1)
        \cup (IF NumExperts > 1 THEN GateVectors(NumExperts - 1) ELSE {})

\* conf_threshold (fiftieths: -0.1, 0, 0.3) and iou_threshold (tenths) a
\* caller may pass; run_moe and run_moe_with_tta accept any float.
ConfThresholds == {0 - 5, 0, 15}

\* The iou_threshold defaults of run_moe_with_tta (0.1) and run_moe (0.5).
DefaultIouThresholds == {1, 5}

VARIABLES
    \* run_moe
    pc, conf_threshold, iou_threshold, gate_weights, i, results, combined,
    all_boxes_raw, nms_calls, moe_ret,
    \* nms applied to a pool, and to its own output
    nms_pool, nms_thr, nms_lo, nms_hi, nms_again, nms_pc,
    \* run_moe_with_tta: the calls in progress and the working directory
    calls, src, file, tpc, view, all_boxes, reads, view_log, tta_ret,
    wbf_calls, oracle_gates, oracle_confs,
    \* one WBF cluster, before and after a box joins it
    wb_cluster, wb_views, wb_prev, wb_pc

moeVars == <<pc, conf_threshold, iou_threshold, gate_weights, i, results,
             combined, all_boxes_raw, nms_calls, moe_ret>>
nmsVars == <<nms_pool, nms_thr, nms_lo, nms_hi, nms_again, nms_pc>>
ttaVars == <<calls, src, file, tpc, view, all_boxes, reads, view_log, tta_ret,
             wbf_calls, oracle_gates, oracle_confs>>
wbVars  == <<wb_cluster, wb_views, wb_prev, wb_pc>>
vars == <<moeVars, nmsVars, ttaVars, wbVars>>

\* ------------------------------------------------------------- run_moe
\* result.boxes.conf * weight
ScaledConfUnweighted(c, weight) == c * 5

ScaledConf(c, weight) == c * weight

\* keep_mask = conf > conf_threshold
KeepMaskInclusive(conf, thr) == conf >= thr

KeepMask(conf, thr) == conf > thr

\* One expert's rows [x1, y1, x2, y2, conf, cls] that pass the mask, the
\* confidence scaled, box and class as the expert gave them.
Combined(result, weight, thr) ==
    LET scaled == [k \in 1..Len(result) |->
                      [box   |-> result[k].box,
                       conf  |-> ScaledConf(result[k].conf, weight),
                       label |-> result[k].label]]
    IN  SelectSeq(scaled, LAMBDA r : KeepMask(r.conf, thr))

\* torch.cat(all_boxes_raw, dim=0)
RECURSIVE Cat(_)
Cat(parts) == IF parts = <<>> THEN <<>> ELSE Head(parts) \o Cat(Tail(parts))

MoeRest ==
    /\ pc = "idle"
    /\ gate_weights = <<>> /\ i = 1 /\ results = <<>> /\ combined = <<>>
    /\ all_boxes_raw = <<>> /\ nms_calls = 0 /\ moe_ret = <<>>

MoeIdle == MoeRest /\ conf_threshold = 0 /\ iou_threshold = 0

NmsIdle ==
    /\ nms_pool = <<>> /\ nms_thr = <<0, 0>> /\ nms_lo = <<>> /\ nms_hi = <<>>
    /\ nms_again = <<>> /\ nms_pc = "idle"

TtaIdle ==
    /\ calls = {} /\ src = <<>> /\ file = <<>> /\ tpc = <<>> /\ view = <<>>
    /\ all_boxes = <<>> /\ reads = <<>> /\ view_log = <<>> /\ tta_ret = <<>>
    /\ wbf_calls = <<>> /\ oracle_gates = {} /\ oracle_confs = {}

WbIdle ==
    /\ wb_cluster = <<>> /\ wb_views = 0 /\ wb_prev = <<>> /\ wb_pc = "idle"

\* A call run_moe(image_path, conf_threshold, iou_threshold) is entered.
InitMoe ==
    /\ pc = "gate"
    /\ conf_threshold \in ConfThresholds
    /\ iou_threshold \in DefaultIouThresholds
    /\ gate_weights = <<>> /\ i = 1 /\ results = <<>> /\ combined = <<>>
    /\ all_boxes_raw = <<>> /\ nms_calls = 0 /\ moe_ret = <<>>
    /\ NmsIdle /\ TtaIdle /\ WbIdle

\* gate_weights = get_gate_weights(img_tensor)
GetGateWeights ==
    /\ pc = "gate"
    /\ \E g \in GateChoices : gate_weights' = g
    /\ pc' = "experts"
    /\ UNCHANGED <<conf_threshold, iou_threshold, i, results, combined,
                   all_boxes_raw, nms_calls, moe_ret>>
    /\ UNCHANGED <<nmsVars, ttaVars, wbVars>>

\* One pass of `for i, expert in enumerate(experts)`: the expert runs, then
\* gate_weights[i] is read (IndexError past the vector's end), then the rows
\* that pass the mask are appended.
RunExpert ==
    /\ pc = "experts"
    /\ i <= NumExperts
    /\ \E result \in RawResults :
          /\ results' = Append(results, result)
          /\ IF i > Len(gate_weights)
             THEN /\ pc' = "raised"
                  /\ UNCHANGED <<i, combined, all_boxes_raw>>
             ELSE LET rows == Combined(result, gate_weights[i], conf_threshold)
                  IN  /\ combined' = Append(combined, rows)
                      /\ all_boxes_raw' =
                            IF rows # <<>> THEN Append(all_boxes_raw, rows)
                                           ELSE all_boxes_raw
                      /\ i' = i + 1
                      /\ pc' = pc
    /\ UNCHANGED <<conf_threshold, iou_threshold, gate_weights, nms_calls,
                   moe_ret>>
    /\ UNCHANGED <<nmsVars, ttaVars, wbVars>>

\* if not all_boxes_raw: return []
ReturnEmpty ==
    /\ pc = "experts"
    /\ i > NumExperts
    /\ all_boxes_raw = <<>>
    /\ moe_ret' = <<>>
    /\ pc' = "returned"
    /\ UNCHANGED <<conf_threshold, iou_threshold, gate_weights, i, results,
                   combined, all_boxes_raw, nms_calls>>
    /\ UNCHANGED <<nmsVars, ttaVars, wbVars>>

\* Merge, nms, return [kept_boxes].
MergeAndNms ==
    /\ pc = "experts"
    /\ i > NumExperts
    /\ all_boxes_raw # <<>>
    /\ nms_calls' = nms_calls + 1
    /\ moe_ret' = <<FinalKept(Cat(all_boxes_raw), iou_threshold)>>
    /\ pc' = "returned"
    /\ UNCHANGED <<conf_threshold, iou_threshold, gate_weights, i, results,
                   combined, all_boxes_raw>>
    /\ UNCHANGED <<nmsVars, ttaVars, wbVars>>

NextMoe == GetGateWeights \/ RunExpert \/ ReturnEmpty \/ MergeAndNms

SpecMoe == InitMoe /\ [][NextMoe]_vars

\* ------------------------------------------------------------- claims on run_moe
\* The rows of the Boxes object run_moe returned (none for []).
Returned == IF moe_ret = <<>> THEN <<>> ELSE moe_ret[1]

\* C1: every detection run_moe returns is a raw detection of some expert e,
\* box and label unchanged, its confidence the raw confidence times
\* gate_weights[e], and that confidence is strictly above conf_threshold.
C1_ReturnedAreScaledRawAboveThreshold ==
    pc = "returned" =>
        \A k \in 1..Len(Returned) :
            /\ Returned[k].conf > conf_threshold
            /\ \E e \in 1..Len(results) : \E r \in 1..Len(results[e]) :
                  /\ e <= Len(gate_weights)
                  /\ Returned[k].box = results[e][r].box
                  /\ Returned[k].label = results[e][r].label
                  /\ Returned[k].conf = results[e][r].conf * gate_weights[e]

\* The end-to-end scenario: weights [0.8, 0.2], one detection per expert,
\* conf_threshold 0.3: only the first expert's box comes back, at 0.72.
C1_Witness ==
    /\ pc = "returned"
    /\ gate_weights = <<4, 1>>
    /\ conf_threshold = 15
    /\ results = << <<[box |-> BoxB, conf |-> 9, label |-> 0]>>,
                    <<[box |-> BoxC, conf |-> 9, label |-> 1]>> >>
    /\ Returned = <<[box |-> BoxB, conf |-> 36, label |-> 0]>>

\* C2 as stated: an expert whose gate weight is 0 contributes no row,
\* whatever the raw confidences and whatever conf_threshold is.
C2_ZeroWeightNeverSurvives ==
    \A e \in 1..Len(combined) :
        gate_weights[e] = 0 => combined[e] = <<>>

\* C2 amended: the same, for every conf_threshold >= 0.
C2_ZeroWeightDroppedIfThresholdNonNegative ==
    conf_threshold >= 0 =>
        \A e \in 1..Len(combined) :
            gate_weights[e] = 0 => combined[e] = <<>>

\* An expert with weight 0 reported a detection at raw confidence 0.9 and
\* the call's threshold is 0: the scaled confidence equals the threshold.
C2_Witness ==
    /\ conf_threshold = 0
    /\ \E e \in 1..Len(combined) :
          /\ gate_weights[e] = 0
          /\ \E r \in 1..Len(results[e]) : results[e][r].conf = 9
          /\ combined[e] = <<>>

\* C6 as stated: with a gate vector whose length is not len(experts), no
\* expert is run, nothing is pooled, and run_moe does not return.
C6_MismatchFailsBeforeAnyExpert ==
    (pc # "gate" /\ Len(gate_weights) # NumExperts) =>
        /\ results = <<>>
        /\ all_boxes_raw = <<>>
        /\ pc # "returned"

\* ------------------------------------------------------------- nms on a pool
\* Gate-scaled confidences of pooled rows, in fiftieths.
PoolConfs == {16, 20, 36}

PoolRows ==
    {[box |-> b, conf |-> c, label |-> BoxLabel(b)] :
        b \in Boxes, c \in PoolConfs}

\* iou_threshold values compared on one pool (0.1 is run_moe_with_tta's
\* default).
NmsThresholds == {1, 3}

\* The pool all_boxes_combined is being put together, row by row.
InitNms ==
    /\ nms_pool = <<>> /\ nms_thr = <<0, 0>> /\ nms_lo = <<>> /\ nms_hi = <<>>
    /\ nms_again = <<>> /\ nms_pc = "build"
    /\ MoeIdle /\ TtaIdle /\ WbIdle

NmsAdd ==
    /\ nms_pc = "build"
    /\ Len(nms_pool) < MaxPool
    /\ \E d \in PoolRows : nms_pool' = Append(nms_pool, d)
    /\ UNCHANGED <<nms_thr, nms_lo, nms_hi, nms_again, nms_pc>>
    /\ UNCHANGED <<moeVars, ttaVars, wbVars>>

\* nms + indexing, as in run_moe, on the same pool with two thresholds
\* t1 <= t2.
NmsApply ==
    /\ nms_pc = "build"
    /\ nms_pool # <<>>
    /\ \E t1 \in NmsThresholds : \E t2 \in {t \in NmsThresholds : t1 <= t} :
          /\ nms_thr' = <<t1, t2>>
          /\ nms_lo' = FinalKept(nms_pool, t1)
          /\ nms_hi' = FinalKept(nms_pool, t2)
    /\ nms_pc' = "applied"
    /\ UNCHANGED <<nms_pool, nms_again>>
    /\ UNCHANGED <<moeVars, ttaVars, wbVars>>

\* The same nms + indexing on the rows it kept, same threshold.
NmsReapply ==
    /\ nms_pc = "applied"
    /\ nms_again' = FinalKept(nms_lo, nms_thr[1])
    /\ nms_pc' = "reapplied"
    /\ UNCHANGED <<nms_pool, nms_thr, nms_lo, nms_hi>>
    /\ UNCHANGED <<moeVars, ttaVars, wbVars>>

NextNms == NmsAdd \/ NmsApply \/ NmsReapply

SpecNms == InitNms /\ [][NextNms]_vars

\* C3 as stated: for every pool and t1 <= t2, nms keeps at least as many rows
\* with t2 as with t1.
C3_HigherThresholdKeepsNoFewer ==
    nms_pc # "build" => Len(nms_hi) >= Len(nms_lo)

\* C3 amended: the same, for pools of at most three rows.
C3_HigherThresholdKeepsNoFewerUpToThree ==
    (nms_pc # "build" /\ Len(nms_pool) <= 3) => Len(nms_hi) >= Len(nms_lo)

\* A pool of three where the higher threshold keeps strictly more.
C3_Witness ==
    /\ nms_pc = "applied"
    /\ Len(nms_pool) = 3
    /\ nms_thr[1] < nms_thr[2]
    /\ Len(nms_lo) < Len(nms_hi)

\* C4: nms applied to the rows it kept, with the same threshold, returns
\* those rows, in the same order.
C4_NmsIdempotent ==
    nms_pc = "reapplied" => nms_again = nms_lo

\* nms was re-applied to an output that lost a row, kept rows of both
\* classes, and holds two rows of equal confidence.
C4_Witness ==
    /\ nms_pc = "reapplied"
    /\ Len(nms_lo) < Len(nms_pool)
    /\ \E p, q \in 1..Len(nms_lo) :
          /\ p < q
          /\ nms_lo[p].conf = nms_lo[q].conf
          /\ nms_lo[p].label # nms_lo[q].label
    /\ nms_again = nms_lo

\* ------------------------------------------------------------- views
\* The augmentation menu, in the order run_moe_with_tta walks it.
AugNames == <<"original", "hflip", "bright", "contrast">>

\* Where a region of the source image lies in a view of it.
\* image.transpose(FLIP_LEFT_RIGHT) mirrors x; ImageEnhance.Brightness and
\* ImageEnhance.Contrast move no pixel.
ViewBox(aug, b) ==
    IF aug = "hflip" THEN <<ImgW - b[3], b[2], ImgW - b[1], b[4]>> ELSE b

\* norm_boxes[:, [0,2]] /= img_w; norm_boxes[:, [1,3]] /= img_h.
\* Unit-square coordinates are kept as numerators over ImgW * ImgH:
\* x / ImgW = (x * ImgH) / (ImgW * ImgH).
NormBox(b) == <<b[1] * ImgH, b[2] * ImgW, b[3] * ImgH, b[4] * ImgW>>

\* ------------------------------------------------------------- weighted_boxes_fusion
\* ensemble_boxes.weighted_boxes_fusion(boxes_list, scores_list, labels_list,
\* iou_thr, skip_box_thr), with its defaults weights=None (one per list),
\* conf_type='avg', allows_overflow=False.  A row is [box, conf, label]; a
\* fused box is the pair num/den of its confidence-weighted average, a
\* fused confidence the pair num/den.

\* prefilter_boxes: rows scoring below skip_box_thr and rows of zero area
\* are skipped (coordinates already lie in the unit square).
Prefilter(boxes_list, skip_box_thr) ==
    SelectSeq(Cat(boxes_list),
              LAMBDA r : ~(r.conf < skip_box_thr) /\ Area(r.box) # 0)

\* current_boxes[current_boxes[:, 1].argsort()[::-1]]: by descending score,
\* equal scores in reverse order of arrival.
\* The score of rows[k] is num[k] / den[k].
ArgsortReversed(rows, num, den) ==
    LET before(q, p) ==
            \/ num[q] * den[p] > num[p] * den[q]
            \/ num[q] * den[p] = num[p] * den[q] /\ q > p
    IN  [k \in 1..Len(rows) |->
            rows[CHOOSE p \in 1..Len(rows) :
                    Cardinality({q \in 1..Len(rows) : before(q, p)}) = k - 1]]

RECURSIVE SumConf(_)
SumConf(cluster) ==
    IF cluster = <<>> THEN 0 ELSE Head(cluster).conf + SumConf(Tail(cluster))

RECURSIVE SumCoord(_, _)
SumCoord(cluster, k) ==
    IF cluster = <<>> THEN 0
    ELSE Head(cluster).conf * Head(cluster).box[k] + SumCoord(Tail(cluster), k)

\* get_weighted_box: box[4:] = sum(conf_j * box_j) / sum(conf_j).
WeightedBox(cluster) ==
    [num |-> [k \in 1..4 |-> SumCoord(cluster, k)], den |-> SumConf(cluster)]

\* get_weighted_box's conf / len(boxes), then the rescaling
\* conf * min(len(weights), len(cluster)) / weights.sum(), weights all 1.
FusedConfAveragedTwice(cluster, num_views) ==
    [num |-> SumConf(cluster) * Min(num_views, Len(cluster)),
     den |-> Len(cluster) * Len(cluster) * num_views]

FusedConf(cluster, num_views) ==
    [num |-> SumConf(cluster) * Min(num_views, Len(cluster)),
     den |-> Len(cluster) * num_views]

\* a/b < c/d for a, c >= 0 and b, d > 0, by the integer parts and then the
\* remainders (the products a*d and c*b may not fit a machine word).
RECURSIVE FracLess(_, _, _, _)
FracLess(a, b, c, d) ==
    IF a \div b # c \div d THEN a \div b < c \div d
    ELSE IF c % d = 0 THEN FALSE
    ELSE IF a % b = 0 THEN TRUE
    ELSE FracLess(d, c % d, b, a % b)

\* Two boxes brought to one denominator: the weighted box and the new box.
Scaled(b, k) == [c \in 1..4 |-> b[c] * k]

\* find_matching_box_fast: the cluster of the row's label whose weighted box
\* has the largest IoU with the row, if that IoU is above iou_thr; the first
\* such cluster on equal IoU; 0 for none.
FindMatchingBox(clusters, r, iou_thr) ==
    LET wb(k)  == WeightedBox(clusters[k])
        nb(k)  == Scaled(r.box, wb(k).den)
        in(k)  == Inter(wb(k).num, nb(k))
        un(k)  == Area(wb(k).num) + Area(nb(k)) - in(k)
        ok     == {k \in 1..Len(clusters) :
                      /\ clusters[k][1].label = r.label
                      /\ IoUExceeds(wb(k).num, nb(k), iou_thr)}
        best   == {k \in ok : \A m \in ok \ {k} :
                      /\ ~FracLess(in(k), un(k), in(m), un(m))
                      /\ (FracLess(in(m), un(m), in(k), un(k)) \/ k < m)}
    IN  IF ok = {} THEN 0 ELSE CHOOSE k \in best : TRUE

\* The clustering loop over one label's rows.
RECURSIVE Clusterize(_, _, _)
Clusterize(rows, clusters, iou_thr) ==
    IF rows = <<>> THEN clusters
    ELSE LET index == FindMatchingBox(clusters, Head(rows), iou_thr)
         IN  Clusterize(Tail(rows),
                 IF index # 0
                 THEN [clusters EXCEPT ![index] = Append(@, Head(rows))]
                 ELSE Append(clusters, <<Head(rows)>>),
                 iou_thr)

\* The labels of rows, each once, in order of first appearance (the insertion
\* order of prefilter_boxes' dict).
RECURSIVE LabelOrder(_, _)
LabelOrder(rows, seen) ==
    IF rows = <<>> THEN <<>>
    ELSE IF Head(rows).label \in seen THEN LabelOrder(Tail(rows), seen)
    ELSE <<Head(rows).label>> \o
         LabelOrder(Tail(rows), seen \cup {Head(rows).label})

\* One label's fused rows.
FuseLabel(rows, label, num_views, iou_thr) ==
    LET mine     == SelectSeq(rows, LAMBDA r : r.label = label)
        sorted   == ArgsortReversed(mine, [k \in 1..Len(mine) |-> mine[k].conf],
                                    [k \in 1..Len(mine) |-> 1])
        clusters == Clusterize(sorted, <<>>, iou_thr)
    IN  [k \in 1..Len(clusters) |->
            [box   |-> WeightedBox(clusters[k]),
             conf  |-> FusedConf(clusters[k], num_views),
             label |-> clusters[k][1].label,
             size  |-> Len(clusters[k])]]

WeightedBoxesFusion(boxes_list, iou_thr, skip_box_thr) ==
    LET rows   == Prefilter(boxes_list, skip_box_thr)
        labels == LabelOrder(rows, {})
        fused  == Cat([k \in 1..Len(labels) |->
                         FuseLabel(rows, labels[k], Len(boxes_list), iou_thr)])
    IN  ArgsortReversed(fused, [k \in 1..Len(fused) |-> fused[k].conf.num],
                        [k \in 1..Len(fused) |-> fused[k].conf.den])

\* boxes_list[:, [0,2]] *= img_w; boxes_list[:, [1,3]] *= img_h: a fused
\* coordinate num/den over ImgW * ImgH, back in pixels.
Denormalize(fused) ==
    [k \in 1..Len(fused) |->
        [box   |-> [num |-> <<fused[k].box.num[1] * ImgW,
                              fused[k].box.num[2] * ImgH,
                              fused[k].box.num[3] * ImgW,
                              fused[k].box.num[4] * ImgH>>,
                    den |-> fused[k].box.den * ImgW * ImgH],
         conf  |-> fused[k].conf,
         label |-> fused[k].label,
         size  |-> fused[k].size]]

\* ------------------------------------------------------------- run_moe as one step
\* run_moe on an image for which the gate gives `gate` and expert e returns
\* res[e]: what it returns, whether nms ran, and the merged pool.
MoeInfer(gate, res, tconf, tiou) ==
    LET parts == [e \in 1..NumExperts |-> Combined(res[e], gate[e], tconf)]
        raw   == SelectSeq(parts, LAMBDA x : x # <<>>)
    IN  IF raw = <<>>
        THEN [ret |-> <<>>, nms |-> 0]
        ELSE [ret |-> <<FinalKept(Cat(raw), tiou)>>, nms |-> 1]

\* The stepwise run_moe and MoeInfer agree on every completed call.
MoeStepsAgree ==
    (pc = "returned" /\ Len(gate_weights) >= NumExperts) =>
        /\ moe_ret = MoeInfer(gate_weights, results, conf_threshold,
                              iou_threshold).ret
        /\ nms_calls = MoeInfer(gate_weights, results, conf_threshold,
                                iou_threshold).nms

\* ------------------------------------------------------------- run_moe_with_tta
\* Source images: each shows one object, at ImgRegion, of class ImgLabel.
Images == {1, 2}

\* Image 1 shows its object in a corner, image 2 across the middle.
ImgRegion(s) == IF s = 1 THEN BoxA ELSE <<1, 0, 4, 3>>

ImgLabel(s) == s % 2

\* What an expert that reports the object at raw confidence c (0: reports
\* nothing) returns on a file holding view content[2] of image content[1].
ExpertResult(content, c) ==
    IF c = 0 THEN <<>>
    ELSE <<[box   |-> ViewBox(content[2], ImgRegion(content[1])),
            conf  |-> c,
            label |-> ImgLabel(content[1])]>>

AugSet == {AugNames[k] : k \in 1..Len(AugNames)}

\* No file of that name in the working directory.
NoFile == <<>>

\* temp_path = f"_temp_{aug_name}.jpg": the name depends on the view alone.
TempPath(aug) == aug

\* `if aug_boxes:`
HasBoxesAlways(aug_boxes) == TRUE

HasBoxes(aug_boxes) == aug_boxes # <<>>

\* The rows of aug_boxes[0], normalised: one entry of all_boxes (with its
\* scores and labels).
NormRows(aug_boxes) ==
    LET rows == IF aug_boxes = <<>> THEN <<>> ELSE aug_boxes[1]
    IN  [k \in 1..Len(rows) |->
            [box |-> NormBox(rows[k].box), conf |-> rows[k].conf,
             label |-> rows[k].label]]

\* What run_moe_with_tta returns for the collected views.
TtaResult(boxes, tconf, tiou) ==
    IF boxes = <<>> THEN <<>>
    ELSE <<Denormalize(WeightedBoxesFusion(boxes, tiou, tconf))>>

InitCalls(cs, images) ==
    /\ calls = cs
    /\ src = images
    /\ file = [a \in AugSet |-> NoFile]
    /\ tpc = [c \in cs |-> "save"]
    /\ view = [c \in cs |-> 1]
    /\ all_boxes = [c \in cs |-> <<>>]
    /\ reads = [c \in cs |-> <<>>]
    /\ view_log = [c \in cs |-> <<>>]
    /\ tta_ret = [c \in cs |-> <<>>]
    /\ wbf_calls = [c \in cs |-> 0]

\* One call run_moe_with_tta(image_path, conf_threshold, iou_threshold).
InitTta ==
    /\ \E s \in Images : InitCalls({1}, [c \in {1} |-> s])
    /\ oracle_gates = GateVectors(NumExperts)
    /\ oracle_confs = {0} \cup RawConfs
    /\ conf_threshold \in ConfThresholds
    /\ iou_threshold \in DefaultIouThresholds
    /\ MoeRest /\ NmsIdle /\ WbIdle

\* aug_img.save(temp_path)
SaveView(c) ==
    /\ tpc[c] = "save"
    /\ file' = [file EXCEPT ![TempPath(AugNames[view[c]])] =
                    <<src[c], AugNames[view[c]]>>]
    /\ tpc' = [tpc EXCEPT ![c] = "moe"]
    /\ UNCHANGED <<calls, src, view, all_boxes, reads, view_log, tta_ret,
                   wbf_calls, oracle_gates, oracle_confs>>
    /\ UNCHANGED <<moeVars, nmsVars, wbVars>>

\* aug_boxes = run_moe(temp_path, ...) and the body of `if aug_boxes:`.
\* run_moe opens temp_path: it raises when the file is gone.
RunMoeOnView(c) ==
    /\ tpc[c] = "moe"
    /\ LET content == file[TempPath(AugNames[view[c]])]
       IN  IF content = NoFile
           THEN /\ tpc' = [tpc EXCEPT ![c] = "raised"]
                /\ UNCHANGED <<all_boxes, reads, view_log>>
           ELSE \E g \in oracle_gates : \E cs \in [Experts -> oracle_confs] :
                  LET res == [e \in Experts |-> ExpertResult(content, cs[e])]
                      out == MoeInfer(g, res, conf_threshold, iou_threshold)
                  IN  /\ reads' = [reads EXCEPT ![c] = Append(@, content)]
                      /\ view_log' = [view_log EXCEPT ![c] = Append(@,
                            [raw_any    |-> \E e \in Experts : res[e] # <<>>,
                             pool_empty |-> \A e \in Experts :
                                 Combined(res[e], g[e], conf_threshold) = <<>>,
                             ret_empty  |-> out.ret = <<>>,
                             nms        |-> out.nms])]
                      /\ all_boxes' = [all_boxes EXCEPT ![c] =
                            IF HasBoxes(out.ret)
                            THEN Append(@, NormRows(out.ret)) ELSE @]
                      /\ tpc' = [tpc EXCEPT ![c] = "remove"]
    /\ UNCHANGED <<calls, src, file, view, tta_ret, wbf_calls, oracle_gates,
                   oracle_confs>>
    /\ UNCHANGED <<moeVars, nmsVars, wbVars>>

\* os.remove(temp_path), which raises when the file is gone, and the loop's
\* step to the next view.
RemoveTemp(c) ==
    /\ tpc[c] = "remove"
    /\ IF file[TempPath(AugNames[view[c]])] = NoFile
       THEN /\ tpc' = [tpc EXCEPT ![c] = "raised"]
            /\ UNCHANGED <<file, view>>
       ELSE /\ file' = [file EXCEPT ![TempPath(AugNames[view[c]])] = NoFile]
            /\ IF view[c] < Len(AugNames)
               THEN /\ view' = [view EXCEPT ![c] = @ + 1]
                    /\ tpc' = [tpc EXCEPT ![c] = "save"]
               ELSE /\ view' = view
                    /\ tpc' = [tpc EXCEPT ![c] = "fuse"]
    /\ UNCHANGED <<calls, src, all_boxes, reads, view_log, tta_ret, wbf_calls,
                   oracle_gates, oracle_confs>>
    /\ UNCHANGED <<moeVars, nmsVars, wbVars>>

\* if not all_boxes: return []
ReturnNoBoxes(c) ==
    /\ tpc[c] = "fuse"
    /\ all_boxes[c] = <<>>
    /\ tta_ret' = [tta_ret EXCEPT ![c] = <<>>]
    /\ tpc' = [tpc EXCEPT ![c] = "done"]
    /\ UNCHANGED <<calls, src, file, view, all_boxes, reads, view_log,
                   wbf_calls, oracle_gates, oracle_confs>>
    /\ UNCHANGED <<moeVars, nmsVars, wbVars>>

\* weighted_boxes_fusion, rescaling, return [kept_boxes].
FuseAndReturn(c) ==
    /\ tpc[c] = "fuse"
    /\ all_boxes[c] # <<>>
    /\ wbf_calls' = [wbf_calls EXCEPT ![c] = @ + 1]
    /\ tta_ret' = [tta_ret EXCEPT ![c] =
                      TtaResult(all_boxes[c], conf_threshold, iou_threshold)]
    /\ tpc' = [tpc EXCEPT ![c] = "done"]
    /\ UNCHANGED <<calls, src, file, view, all_boxes, reads, view_log,
                   oracle_gates, oracle_confs>>
    /\ UNCHANGED <<moeVars, nmsVars, wbVars>>

NextTta ==
    \/ \E c \in calls : SaveView(c)
    \/ \E c \in calls : RunMoeOnView(c)
    \/ \E c \in calls : RemoveTemp(c)
    \/ \E c \in calls : ReturnNoBoxes(c)
    \/ \E c \in calls : FuseAndReturn(c)

SpecTta == InitTta /\ [][NextTta]_vars

\* The rows of the Boxes object a call returned (none for []).
TtaReturned(c) == IF tta_ret[c] = <<>> THEN <<>> ELSE tta_ret[c][1]

\* C5 as stated: every detection run_moe_with_tta returns has a fused
\* confidence strictly above conf_threshold.
C5_ReturnedFusedAboveThreshold ==
    \A c \in calls :
        tpc[c] = "done" =>
            \A k \in 1..Len(TtaReturned(c)) :
                TtaReturned(c)[k].conf.num >
                    conf_threshold * TtaReturned(c)[k].conf.den

\* C7: a view whose experts leave nothing above the threshold gets [] from
\* run_moe, without nms, and adds no entry to all_boxes; a call all of whose
\* views got [] returns [] without weighted_boxes_fusion.
C7_EmptyResultsPropagate ==
    \A c \in calls :
        /\ \A k \in 1..Len(view_log[c]) :
              view_log[c][k].pool_empty =>
                  view_log[c][k].ret_empty /\ view_log[c][k].nms = 0
        /\ Len(all_boxes[c]) =
              Cardinality({k \in 1..Len(view_log[c]) :
                              ~view_log[c][k].ret_empty})
        /\ \A k \in 1..Len(all_boxes[c]) : all_boxes[c][k] # <<>>
        /\ (tpc[c] = "done" /\ \A k \in 1..Len(view_log[c]) :
                                  view_log[c][k].ret_empty)
              => tta_ret[c] = <<>> /\ wbf_calls[c] = 0

\* A finished call whose four views all came back empty, one of them with
\* expert detections that the threshold dropped.
C7_Witness ==
    \E c \in calls :
        /\ tpc[c] = "done"
        /\ Len(view_log[c]) = Len(AugNames)
        /\ \A k \in 1..Len(view_log[c]) : view_log[c][k].ret_empty
        /\ \E k \in 1..Len(view_log[c]) : view_log[c][k].raw_any
        /\ all_boxes[c] = <<>>
        /\ tta_ret[c] = <<>>
        /\ wbf_calls[c] = 0

\* C10 as stated: every box entering weighted_boxes_fusion has the
\* unit-square coordinates of the source region it covers, whichever view it
\* was detected in.
C10_BoxesInOneCoordinateSpace ==
    \A c \in calls :
        \A k \in 1..Len(all_boxes[c]) : \A r \in 1..Len(all_boxes[c][k]) :
            all_boxes[c][k][r].box = NormBox(ImgRegion(src[c]))

\* ------------------------------------------------------------- two concurrent calls
\* Two calls of run_moe_with_tta on different source images, in one working
\* directory.  The gate and the experts answer one way per image: the gate
\* trusts the first expert alone, and the experts either all report the
\* object at 0.9 or all report nothing.
TrustFirst == [e \in Experts |-> IF e = 1 THEN 5 ELSE 0]

InitConc ==
    /\ InitCalls({1, 2}, [c \in {1, 2} |-> c])
    /\ oracle_gates = {TrustFirst}
    /\ oracle_confs \in {{9}, {0}}
    /\ conf_threshold = 15
    /\ iou_threshold = 1
    /\ MoeRest /\ NmsIdle /\ WbIdle

SpecConc == InitConc /\ [][NextTta]_vars

\* all_boxes of a call on image s that runs alone.
AloneBoxes(s) ==
    LET g  == CHOOSE x \in oracle_gates : TRUE
        cf == CHOOSE x \in oracle_confs : TRUE
        out(k) == MoeInfer(g, [e \in Experts |->
                                  ExpertResult(<<s, AugNames[k]>>, cf)],
                           conf_threshold, iou_threshold).ret
        recs == [k \in 1..Len(AugNames) |-> NormRows(out(k))]
    IN  SelectSeq(recs, LAMBDA x : x # <<>>)

\* C9 as stated: in every interleaving each run_moe reads the view its own
\* call saved, no call fails, and each call returns what it returns alone.
C9_ConcurrentCallsIndependent ==
    \A c \in calls :
        /\ tpc[c] # "raised"
        /\ \A k \in 1..Len(reads[c]) : reads[c][k] = <<src[c], AugNames[k]>>
        /\ tpc[c] = "done" =>
              tta_ret[c] = TtaResult(AloneBoxes(src[c]), conf_threshold,
                                     iou_threshold)

\* ------------------------------------------------------------- one WBF cluster
\* Gate-scaled confidences of the rows of a cluster, in fiftieths.
ClusterConfs == {16, 20, 36, 45}

\* A cluster of weighted_boxes_fusion grows by one row; num_views lists
\* were passed in.
InitWb ==
    /\ wb_cluster = <<>>
    /\ wb_views \in 1..Len(AugNames)
    /\ wb_prev = <<>>
    /\ wb_pc = "empty"
    /\ MoeIdle /\ NmsIdle /\ TtaIdle

\* The cluster before (wb_prev: its fused confidence, confidence sum and
\* size) and after a row of confidence cf joins; rows stay in descending
\* order of confidence, as the clustering loop meets them.
WbJoin ==
    /\ Len(wb_cluster) < MaxCluster
    /\ \E cf \in ClusterConfs :
          /\ wb_prev' = IF wb_cluster = <<>> THEN <<>>
                        ELSE <<[fused |-> FusedConf(wb_cluster, wb_views),
                                sum   |-> SumConf(wb_cluster),
                                len   |-> Len(wb_cluster),
                                added |-> cf]>>
          /\ LET grown == Append(wb_cluster,
                         [box |-> NormBox(BoxA), conf |-> cf, label |-> 0])
             IN  wb_cluster' = ArgsortReversed(grown,
                                  [k \in 1..Len(grown) |-> grown[k].conf],
                                  [k \in 1..Len(grown) |-> 1])
    /\ wb_pc' = "grown"
    /\ UNCHANGED wb_views
    /\ UNCHANGED <<moeVars, nmsVars, ttaVars>>

NextWb == WbJoin

SpecWb == InitWb /\ [][NextWb]_vars

\* C8: with the number of views fixed, a row whose confidence is above the
\* cluster's mean never lowers the cluster's fused confidence when it joins.
C8_JoinAboveMeanNeverLowersFused ==
    \A k \in 1..Len(wb_prev) :
        wb_prev[k].added * wb_prev[k].len > wb_prev[k].sum =>
            FusedConf(wb_cluster, wb_views).num * wb_prev[k].fused.den >=
                wb_prev[k].fused.num * FusedConf(wb_cluster, wb_views).den

\* A row above the mean joined a cluster that already had a row from every
\* view, and the fused confidence rose.
C8_Witness ==
    /\ Len(wb_prev) = 1
    /\ wb_prev[1].len >= wb_views
    /\ wb_prev[1].added * wb_prev[1].len > wb_prev[1].sum
    /\ FusedConf(wb_cluster, wb_views).num * wb_prev[1].fused.den >
          wb_prev[1].fused.num * FusedConf(wb_cluster, wb_views).den

====
